---------------------------- MODULE Spec2Model ----------------------------
(***************************************************************************)
(* SceneHop video-browser demo (gui_concept.py, better_gui_concept.py).     *)
(*                                                                         *)
(* The module models the thumbnail cache (make_thumb / ASSET_CACHE), the   *)
(* greedy title wrapper (wrap), the metadata formatters (fmt_views,        *)
(* fmt_age), the seeded catalog build (MOCK_VIDEOS) and the GUI handlers   *)
(* that read the catalog and fill the cache.                               *)
(*                                                                         *)
(* Specifications:                                                         *)
(*   SpecWrap     wrap applied to every bounded input text                 *)
(*   SpecFmt      fmt_views / fmt_age applied to bounded inputs            *)
(*   SpecThumb    single-threaded sequences of make_thumb calls            *)
(*   SpecThreads  make_thumb called from several threads                   *)
(*   SpecCatalog  the two catalog builds, record by record                 *)
(*   Spec         the running application (navigation, search, overlay)    *)
(*   SpecColor    the hover colours VideoCard derives from a colour        *)
(*   SpecSizes    make_thumb called with any size, degenerate ones too     *)
(*   SpecSidebar  the sidebar under resize events and toggles              *)
(*   SpecHover    HoverThumb under Enter, Leave and timer ticks            *)
(*   SpecRipple   RippleButton pulses                                      *)
(***************************************************************************)
EXTENDS Integers, Sequences, FiniteSets, TLC

VARIABLES
    module,        \* which source file runs: "gui_concept" or "better_gui_concept"
    t,             \* wrap: the argument t
    max_chars,     \* wrap: the argument max_chars
    wrapped,       \* wrap: the returned string
    wrap_pc,       \* wrap: "call" before the call, "done" after it
    fmt_fn,        \* formatter called: "fmt_views" or "fmt_age"
    fmt_arg,       \* its argument (v or days)
    fmt_out,       \* the returned string
    fmt_pc,        \* "call" before the call, "done" after it
    ASSET_CACHE,   \* the module-level dict: key (text, color, size) -> bitmap
    composited,    \* instrumentation: key -> how many times its bitmap was built
    requested,     \* instrumentation: the (text, color, size) triples asked for
    nextId,        \* identity of the next Image object created by make_thumb
    ret,           \* the last call of make_thumb and the bitmap it returned
    calls,         \* number of make_thumb calls made so far
    pc,            \* per thread: where it is inside make_thumb
    req,           \* per thread: the (text, color, size) of its current call
    tcanvas,       \* per thread: the local canvas built by the body
    tret,          \* per thread: the bitmap its last call returned
    tcalls,        \* per thread: number of calls started
    rng,           \* per run: the state of its _random generator
    built,         \* per run: the MOCK_VIDEOS list built so far
    phase,         \* "imported" (module loaded) or "running" (App constructed)
    MOCK_VIDEOS,   \* the catalog of the running source file
    cards,         \* VideoGrid.cards: the cards shown, with their frames
    overlays,      \* the PlayerOverlay windows opened, by video
    accent,        \* VideoCard: the video's accent colour
    variants,      \* VideoCard: the (brighter, darker) colours derived from it
    raised,        \* the exception the last make_thumb call raised, or "none"
    width,         \* App.winfo_width() at the last <Configure> event
    collapsed,     \* gui_concept SideBar.collapsed
    _visible,      \* SlidingSidebar._visible
    _cur,          \* SlidingSidebar._cur
    applied,       \* SlidingSidebar: the width last given to _apply_width
    slides,        \* SlidingSidebar: the pending anim callbacks, in due order
    last,          \* the sidebar handler that ran last, and what it found
    _frames,       \* HoverThumb: len(self._frames)
    _hover,        \* HoverThumb._hover
    _idx,          \* HoverThumb._idx
    _cycle_job,    \* HoverThumb._cycle_job: an after id, or None (0)
    timers,        \* HoverThumb: the after ids of the pending tick timers
    nextJob,       \* the next after id Tk hands out
    ticked,        \* HoverThumb: did the last event fire a tick
    base,          \* RippleButton: (_base_width, _base_height)
    configured,    \* RippleButton: the (width, height) last configured
    pulses,        \* RippleButton: the pending step callbacks, in due order
    clicks         \* RippleButton: <Button-1> events handled so far

wrapVars == <<t, max_chars, wrapped, wrap_pc>>
fmtVars == <<fmt_fn, fmt_arg, fmt_out, fmt_pc>>
cacheVars == <<ASSET_CACHE, composited, requested, nextId>>
thumbVars == <<cacheVars, ret, calls>>
threadVars == <<pc, req, tcanvas, tret, tcalls>>
buildVars == <<rng, built>>
guiVars == <<phase, MOCK_VIDEOS, cards, overlays>>
colorVars == <<accent, variants>>
sidebarVars == <<width, collapsed, _visible, _cur, applied, slides, last>>
hoverVars == <<_frames, _hover, _idx, _cycle_job, timers, nextJob, ticked>>
rippleVars == <<base, configured, pulses, clicks>>
widgetVars == <<colorVars, raised, sidebarVars, hoverVars, rippleVars>>
vars == <<module, wrapVars, fmtVars, thumbVars, threadVars, buildVars, guiVars,
          widgetVars>>

Modules == {"gui_concept", "better_gui_concept"}

(***************************************************************************)
(* The parts of the state a specification leaves at rest.                  *)
(***************************************************************************)
WrapIdle == t = "" /\ max_chars = 0 /\ wrapped = "" /\ wrap_pc = "done"

FmtIdle == fmt_fn = "none" /\ fmt_arg = 0 /\ fmt_out = "" /\ fmt_pc = "done"

ThumbIdle ==
    /\ ASSET_CACHE = [k \in {} |-> 0]
    /\ composited = [k \in {} |-> 0]
    /\ requested = {}
    /\ nextId = 1
    /\ ret = [text |-> "", color |-> <<0, 0, 0>>, size |-> <<0, 0>>,
              hit |-> FALSE,
              bitmap |-> [id |-> 0, mode |-> "none", size |-> <<0, 0>>,
                          color |-> <<0, 0, 0>>, text |-> ""]]
    /\ calls = 0

ThreadsIdle ==
    /\ pc = <<>> /\ req = <<>> /\ tcanvas = <<>> /\ tret = <<>> /\ tcalls = <<>>

BuildIdle == rng = <<>> /\ built = <<>>

GuiIdle == phase = "none" /\ MOCK_VIDEOS = <<>> /\ cards = <<>> /\ overlays = <<>>

ColorIdle == accent = <<>> /\ variants = <<>>

ErrIdle == raised = "none"

SidebarIdle ==
    /\ width = 0 /\ collapsed = FALSE /\ _visible = FALSE /\ _cur = 0
    /\ applied = 0 /\ slides = <<>> /\ last = <<>>

HoverIdle ==
    /\ _frames = 0 /\ _hover = FALSE /\ _idx = 0 /\ _cycle_job = 0 /\ timers = {}
    /\ nextJob = 0 /\ ticked = FALSE

RippleIdle == base = <<>> /\ configured = <<>> /\ pulses = <<>> /\ clicks = 0

WidgetIdle == ColorIdle /\ ErrIdle /\ SidebarIdle /\ HoverIdle /\ RippleIdle

(***************************************************************************)
(* Strings.  Python str operations used by the sources, on TLA+ strings.   *)
(***************************************************************************)
CharAt(s, i) == SubSeq(s, i, i)

\* str.split() with no argument splits on runs of whitespace.
IsSpace(c) == c \in {" ", "\t", "\n"}

\* The positions where a word begins: a non-space character at the start of
\* the string or after a whitespace character.
WordStarts(s) ==
    {i \in 1..Len(s) : /\ ~IsSpace(CharAt(s, i))
                       /\ (i = 1 \/ IsSpace(CharAt(s, i - 1)))}

\* The position where the word beginning at i ends.
WordEnd(s, i) ==
    CHOOSE j \in i..Len(s) :
        /\ \A k \in i..j : ~IsSpace(CharAt(s, k))
        /\ (j = Len(s) \/ IsSpace(CharAt(s, j + 1)))

\* t.split(): the maximal runs of non-whitespace characters, in order.
split(s) ==
    LET starts == WordStarts(s)
        nth(k) == CHOOSE i \in starts : Cardinality({j \in starts : j < i}) = k - 1
    IN  [k \in 1..Cardinality(starts) |-> SubSeq(s, nth(k), WordEnd(s, nth(k)))]

\* sep.join(parts)
RECURSIVE join(_, _)
join(sep, parts) ==
    IF parts = <<>> THEN ""
    ELSE IF Len(parts) = 1 THEN parts[1]
    ELSE parts[1] \o sep \o join(sep, Tail(parts))

\* sum(len(x) for x in buf)
RECURSIVE SumLen(_)
SumLen(buf) == IF buf = <<>> THEN 0 ELSE Len(buf[1]) + SumLen(Tail(buf))

\* lines[:n]
Take(seq, n) == SubSeq(seq, 1, IF Len(seq) < n THEN Len(seq) ELSE n)

(***************************************************************************)
(* wrap (nested in make_thumb).  The loop over words carries (lines, buf). *)
(***************************************************************************)
\* The test of the for loop: does w overflow the line held in buf?
Overflows(buf, w, budget) == SumLen(buf) + Len(buf) - 1 + Len(w) > budget

\* One iteration of "for w in words".
WrapStep(st, w, budget) ==
    IF Overflows(st.buf, w, budget)
    THEN [lines |-> Append(st.lines, join(" ", st.buf)), buf |-> <<w>>]
    ELSE [lines |-> st.lines, buf |-> Append(st.buf, w)]

RECURSIVE WrapLoop(_, _, _)
WrapLoop(st, words, budget) ==
    IF words = <<>> THEN st
    ELSE WrapLoop(WrapStep(st, Head(words), budget), Tail(words), budget)

\* words, lines, buf = t.split(), [], []; for ...; if buf: lines.append(...)
WrapLines(s, budget) ==
    LET st == WrapLoop([lines |-> <<>>, buf |-> <<>>], split(s), budget)
    IN  IF st.buf # <<>> THEN Append(st.lines, join(" ", st.buf)) ELSE st.lines

\* Mutant of KeptLines: the return statement joins every line.
KeptLines_all(lines) == lines

\* The lines kept by the return statement: lines[:2].
KeptLines(lines) == Take(lines, 2)

wrap(s, budget) == join("\n", KeptLines(WrapLines(s, budget)))

(***************************************************************************)
(* Bounds of the wrap inputs.                                              *)
(***************************************************************************)
MaxTextLen == 5
MaxBudget == 3

Alphabet == {"a", "b", " ", "\n"}

RECURSIVE TextsOfLen(_)
TextsOfLen(n) ==
    IF n = 0 THEN {""}
    ELSE {s \o c : s \in TextsOfLen(n - 1), c \in Alphabet}

Texts == UNION {TextsOfLen(n) : n \in 0..MaxTextLen}

(***************************************************************************)
(* SpecWrap: one call of wrap on any bounded text and budget.              *)
(***************************************************************************)
InitWrap ==
    /\ module \in Modules
    /\ WidgetIdle
    /\ t \in Texts
    /\ max_chars \in 0..MaxBudget
    /\ wrapped = ""
    /\ wrap_pc = "call"
    /\ FmtIdle
    /\ ThumbIdle
    /\ ThreadsIdle
    /\ BuildIdle
    /\ GuiIdle

CallWrap ==
    /\ wrap_pc = "call"
    /\ wrapped' = wrap(t, max_chars)
    /\ wrap_pc' = "done"
    /\ UNCHANGED <<module, widgetVars, t, max_chars, fmtVars, thumbVars, threadVars, buildVars, guiVars>>

NextWrap == CallWrap

SpecWrap == InitWrap /\ [][NextWrap]_vars

(***************************************************************************)
(* Claims about wrap.                                                      *)
(***************************************************************************)
RECURSIVE CountChar(_, _)
CountChar(s, c) ==
    IF s = "" THEN 0
    ELSE (IF CharAt(s, 1) = c THEN 1 ELSE 0) + CountChar(SubSeq(s, 2, Len(s)), c)

\* The lines of a string: the pieces between its line breaks.
RECURSIVE LinesFrom(_, _, _, _)
LinesFrom(s, i, cur, acc) ==
    IF i > Len(s) THEN Append(acc, cur)
    ELSE IF CharAt(s, i) = "\n"
         THEN LinesFrom(s, i + 1, "", Append(acc, cur))
         ELSE LinesFrom(s, i + 1, cur \o CharAt(s, i), acc)

LinesOf(s) == LinesFrom(s, 1, "", <<>>)

\* C5: whatever the input text and budget, the string returned by wrap holds
\* at most one line break, i.e. at most 2 lines.
C5_WrapAtMostTwoLines ==
    wrap_pc = "done" => /\ CountChar(wrapped, "\n") <= 1
                        /\ Len(LinesOf(wrapped)) <= 2

\* C5 witness: a finished call whose loop produced more than two lines, so
\* that the truncation of the return statement acted.
C5_Witness ==
    /\ wrap_pc = "done"
    /\ Len(WrapLines(t, max_chars)) > 2
    /\ Len(LinesOf(wrapped)) = 2

\* C6 as claimed: every returned line that holds two or more words is at
\* most max_chars characters long (words plus single-space separators).
C6_LinesWithinBudget ==
    wrap_pc = "done" =>
        \A i \in 1..Len(LinesOf(wrapped)) :
            Len(split(LinesOf(wrapped)[i])) >= 2
                => Len(LinesOf(wrapped)[i]) <= max_chars

(***************************************************************************)
(* Text formatters.                                                        *)
(*                                                                         *)
(* f"{n/d:.1f}": n/d is an IEEE-754 double (int / int is correctly rounded *)
(* to 53 significant bits, ties to even) and the format rounds the exact   *)
(* value of that double to one decimal, ties to even.                      *)
(***************************************************************************)
\* The sign of double(n/d) - n/d, by binary long division: `have` counts
\* the significant bits produced so far, `rem` is the remainder, `odd` says
\* whether the last bit produced is 1.
RECURSIVE DivBits(_, _, _, _)
DivBits(rem, d, have, odd) ==
    IF rem = 0 THEN 0
    ELSE IF have = 53
         THEN IF 2 * rem > d THEN 1
              ELSE IF 2 * rem < d THEN -1
              ELSE IF odd THEN 1 ELSE -1
         ELSE LET b == IF 2 * rem >= d THEN 1 ELSE 0
              IN  DivBits(2 * rem - b * d, d,
                          IF have > 0 \/ b = 1 THEN have + 1 ELSE 0, b = 1)

RECURSIVE BitLength(_)
BitLength(n) == IF n = 0 THEN 0 ELSE 1 + BitLength(n \div 2)

DivisionError(n, d) == DivBits(n % d, d, BitLength(n \div d), (n \div d) % 2 = 1)

\* The tenths printed by f"{n/d:.1f}" (the printed number times 10).
Tenths(n, d) ==
    LET q == (10 * n) \div d
        r == (10 * n) % d
    IN  IF 2 * r < d THEN q
        ELSE IF 2 * r > d THEN q + 1
        ELSE \* n/d is a decimal tie: the double decides, then ties to even
             LET e == DivisionError(n, d)
             IN  IF e > 0 THEN q + 1
                 ELSE IF e < 0 THEN q
                 ELSE IF q % 2 = 0 THEN q ELSE q + 1

\* f"{n/d:.1f}"
Fixed1(n, d) == ToString(Tenths(n, d) \div 10) \o "." \o ToString(Tenths(n, d) % 10)

\* Mutant of fmt_views: strict thresholds.
fmt_views_strict(v) ==
    IF v > 1000000 THEN Fixed1(v, 1000000) \o "M views"
    ELSE IF v > 1000 THEN Fixed1(v, 1000) \o "K views"
    ELSE ToString(v) \o " views"

fmt_views(v) ==
    IF v >= 1000000 THEN Fixed1(v, 1000000) \o "M views"
    ELSE IF v >= 1000 THEN Fixed1(v, 1000) \o "K views"
    ELSE ToString(v) \o " views"

\* Mutant of fmt_age: a year starts after the twelfth month.
fmt_age_late_year(days) ==
    IF days = 0 THEN "today"
    ELSE IF days = 1 THEN "1 day ago"
    ELSE IF days < 30 THEN ToString(days) \o " days ago"
    ELSE LET m == days \div 30
         IN  IF m <= 12 THEN ToString(m) \o " months ago"
             ELSE ToString(m \div 12) \o " years ago"

fmt_age(days) ==
    IF days = 0 THEN "today"
    ELSE IF days = 1 THEN "1 day ago"
    ELSE IF days < 30 THEN ToString(days) \o " days ago"
    ELSE LET m == days \div 30
         IN  IF m < 12 THEN ToString(m) \o " months ago"
             ELSE ToString(m \div 12) \o " years ago"

(***************************************************************************)
(* Bounds of the formatter inputs: view counts around the thresholds, the  *)
(* decimal ties and the documented examples; ages from 0 up.               *)
(***************************************************************************)
ViewSpread == 60
MaxDays == 900

ViewPivots == {0, 1000, 1250, 1500, 1000000, 1050000, 1250000, 2500000}

ViewCounts ==
    {p + k : p \in ViewPivots, k \in (0 - ViewSpread)..ViewSpread} \cap Nat

(***************************************************************************)
(* SpecFmt: one call of fmt_views or fmt_age on any bounded input.         *)
(***************************************************************************)
InitFmt ==
    /\ module \in Modules
    /\ WidgetIdle
    /\ \/ fmt_fn = "fmt_views" /\ fmt_arg \in ViewCounts
       \/ fmt_fn = "fmt_age" /\ fmt_arg \in 0..MaxDays
    /\ fmt_out = ""
    /\ fmt_pc = "call"
    /\ WrapIdle
    /\ ThumbIdle
    /\ ThreadsIdle
    /\ BuildIdle
    /\ GuiIdle

CallFmtViews ==
    /\ fmt_pc = "call"
    /\ fmt_fn = "fmt_views"
    /\ fmt_out' = fmt_views(fmt_arg)
    /\ fmt_pc' = "done"
    /\ UNCHANGED <<module, widgetVars, fmt_fn, fmt_arg, wrapVars, thumbVars, threadVars, buildVars, guiVars>>

CallFmtAge ==
    /\ fmt_pc = "call"
    /\ fmt_fn = "fmt_age"
    /\ fmt_out' = fmt_age(fmt_arg)
    /\ fmt_pc' = "done"
    /\ UNCHANGED <<module, widgetVars, fmt_fn, fmt_arg, wrapVars, thumbVars, threadVars, buildVars, guiVars>>

NextFmt == CallFmtViews \/ CallFmtAge

SpecFmt == InitFmt /\ [][NextFmt]_vars

(***************************************************************************)
(* Claims about the formatters.                                            *)
(***************************************************************************)
EndsWith(s, suffix) ==
    /\ Len(s) >= Len(suffix)
    /\ SubSeq(s, Len(s) - Len(suffix) + 1, Len(s)) = suffix

IsDigit(c) == \E d \in 0..9 : ToString(d) = c
DigitValue(c) == CHOOSE d \in 0..9 : ToString(d) = c

IsNumeral(s) == Len(s) >= 1 /\ \A i \in 1..Len(s) : IsDigit(CharAt(s, i))

RECURSIVE NumeralValue(_)
NumeralValue(s) ==
    IF s = "" THEN 0
    ELSE 10 * NumeralValue(SubSeq(s, 1, Len(s) - 1)) + DigitValue(CharAt(s, Len(s)))

\* s reads "<digits>.<digit>".
IsOneDecimal(s) ==
    /\ Len(s) >= 3
    /\ IsNumeral(SubSeq(s, 1, Len(s) - 2))
    /\ CharAt(s, Len(s) - 1) = "."
    /\ IsDigit(CharAt(s, Len(s)))

\* The number s reads, times 10.
OneDecimalTenths(s) ==
    10 * NumeralValue(SubSeq(s, 1, Len(s) - 2)) + DigitValue(CharAt(s, Len(s)))

\* s is v/unit written to one decimal (the nearest tenth) followed by suffix.
IsScaledForm(s, v, unit, suffix) ==
    /\ EndsWith(s, suffix)
    /\ LET num == SubSeq(s, 1, Len(s) - Len(suffix))
       IN  /\ IsOneDecimal(num)
           /\ LET d == OneDecimalTenths(num) * unit - 10 * v
              IN  2 * d <= unit /\ 2 * d >= 0 - unit

\* C7: for every count fmt_views picks exactly one form by threshold: the
\* millions form iff count >= 1,000,000, otherwise the thousands form iff
\* count >= 1,000, otherwise the plain count; 999, 1500 and 2,500,000 format
\* as documented.
C7_FmtViewsForms ==
    (fmt_pc = "done" /\ fmt_fn = "fmt_views") =>
        /\ (EndsWith(fmt_out, "M views") <=> fmt_arg >= 1000000)
        /\ (EndsWith(fmt_out, "K views") <=> (fmt_arg >= 1000 /\ fmt_arg < 1000000))
        /\ fmt_arg >= 1000000 => IsScaledForm(fmt_out, fmt_arg, 1000000, "M views")
        /\ (fmt_arg >= 1000 /\ fmt_arg < 1000000)
              => IsScaledForm(fmt_out, fmt_arg, 1000, "K views")
        /\ fmt_arg < 1000 => fmt_out = ToString(fmt_arg) \o " views"
        /\ fmt_arg = 999 => fmt_out = "999 views"
        /\ fmt_arg = 1500 => fmt_out = "1.5K views"
        /\ fmt_arg = 2500000 => fmt_out = "2.5M views"

\* C7 witness: a finished call at a threshold, in the form the threshold
\* selects.
C7_Witness ==
    /\ fmt_pc = "done" /\ fmt_fn = "fmt_views"
    /\ fmt_arg = 1000000
    /\ fmt_out = "1.0M views"

\* C8: fmt_age returns "today" for 0, "1 day ago" for 1, "<days> days ago"
\* for 2..29, "<days//30> months ago" for 30..359 with a month count in
\* 1..11, and "<(days//30)//12> years ago" from 360 on with a year count
\* >= 1, by integer division; 45 gives "1 months ago", 400 "1 years ago".
C8_FmtAgeForms ==
    (fmt_pc = "done" /\ fmt_fn = "fmt_age") =>
        /\ fmt_arg = 0 => fmt_out = "today"
        /\ fmt_arg = 1 => fmt_out = "1 day ago"
        /\ (fmt_arg >= 2 /\ fmt_arg <= 29) => fmt_out = ToString(fmt_arg) \o " days ago"
        /\ (fmt_arg >= 30 /\ fmt_arg <= 359) =>
              /\ fmt_out = ToString(fmt_arg \div 30) \o " months ago"
              /\ fmt_arg \div 30 \in 1..11
        /\ fmt_arg >= 360 =>
              /\ fmt_out = ToString((fmt_arg \div 30) \div 12) \o " years ago"
              /\ (fmt_arg \div 30) \div 12 >= 1
        /\ EndsWith(fmt_out, " months ago") =>
              NumeralValue(SubSeq(fmt_out, 1, Len(fmt_out) - 11)) \in 1..11
        /\ fmt_arg = 45 => fmt_out = "1 months ago"
        /\ fmt_arg = 400 => fmt_out = "1 years ago"

\* C8 witness: the first day of the first year, where the month count would
\* have reached 12.
C8_Witness ==
    /\ fmt_pc = "done" /\ fmt_fn = "fmt_age"
    /\ fmt_arg = 360
    /\ fmt_out = "1 years ago"

(***************************************************************************)
(* Images.  A PIL image is modelled by its mode and size; the bitmap that  *)
(* make_thumb returns also carries its identity (which object it is), the  *)
(* fill colour and the wrapped title drawn on it.  A PIL call that raises  *)
(* ValueError yields ErrorImage, and every operation on ErrorImage yields  *)
(* ErrorImage: the exception leaves make_thumb at the call that raised it. *)
(***************************************************************************)
ErrorImage == [mode |-> "error", size |-> <<0, 0>>]

IsError(img) == img.mode = "error"

\* Image.new(mode, size, ...): ValueError for a negative width or height;
\* an image with a side of 0 is created.
ImageNew(mode, size) ==
    IF size[1] < 0 \/ size[2] < 0 THEN ErrorImage ELSE [mode |-> mode, size |-> size]

\* img.convert(mode)
Convert(img, mode) == IF IsError(img) THEN ErrorImage ELSE [img EXCEPT !.mode = mode]

\* Image.alpha_composite(im1, im2): both RGBA and of one size, else ValueError.
AlphaComposite(im1, im2) ==
    IF im1.mode = "RGBA" /\ im2.mode = "RGBA" /\ im1.size = im2.size
    THEN im1 ELSE ErrorImage

\* canvas.alpha_composite(im, dest): in place, the canvas keeps mode and size.
AlphaCompositeInPlace(canvas, im, dest) ==
    IF canvas.mode = "RGBA" /\ im.mode = "RGBA" THEN canvas ELSE ErrorImage

\* img.putalpha(mask): the mask must have the image's size.
PutAlpha(img, mask) ==
    IF ~IsError(img) /\ ~IsError(mask) /\ mask.size = img.size
    THEN [img EXCEPT !.mode = "RGBA"] ELSE ErrorImage

\* canvas.resize(size, Image.LANCZOS): ValueError unless both sides of the
\* new size are at least 1.
Resize(img, size) ==
    IF IsError(img) \/ size[1] < 1 \/ size[2] < 1 THEN ErrorImage
    ELSE [img EXCEPT !.size = size]

\* Number of channels of a mode.
Channels(mode) ==
    CASE mode = "RGBA" -> 4
      [] mode = "RGB" -> 3
      [] mode = "L" -> 1
      [] OTHER -> 0

\* _rounded_shadow_rgba(size, radius, shadow): the blurred canvas.
rounded_shadow_rgba(size, shadow) ==
    IF IsError(ImageNew("L", size)) THEN ErrorImage
    ELSE ImageNew("RGBA", <<size[1] + shadow * 2, size[2] + shadow * 2>>)

\* _apply_rounded(img, radius)
apply_rounded(img) ==
    IF IsError(img) THEN ErrorImage
    ELSE PutAlpha(Convert(img, "RGBA"), ImageNew("L", img.size))

SuperSample == 2
ShadowMargin == 16
BetterMaxChars == 42
GuiMaxChars == 24

\* The body of make_thumb after the cache test, better_gui_concept.py.
RenderBetter(text, color, size) ==
    LET W == size[1] * SuperSample
        H == size[2] * SuperSample
        img0 == ImageNew("RGB", <<W, H>>)
        overlay == ImageNew("RGBA", <<W, H>>)
        img1 == Convert(AlphaComposite(Convert(img0, "RGBA"), overlay), "RGB")
        img2 == apply_rounded(img1)
        shadow == rounded_shadow_rgba(<<W, H>>, ShadowMargin)
        canvas0 == IF IsError(shadow) THEN ErrorImage ELSE ImageNew("RGBA", shadow.size)
        canvas1 == AlphaCompositeInPlace(canvas0, shadow, <<0, 0>>)
        canvas2 == AlphaCompositeInPlace(canvas1, img2, <<ShadowMargin, ShadowMargin>>)
        canvas == Resize(canvas2, size)
    IN  [mode |-> canvas.mode, size |-> canvas.size,
         color |-> color, text |-> wrap(text, BetterMaxChars)]

\* The body of make_thumb after the cache test, gui_concept.py.
RenderGui(text, color, size) ==
    LET img0 == ImageNew("RGB", size)
        overlay == ImageNew("RGBA", size)
        img1 == Convert(AlphaComposite(Convert(img0, "RGBA"), overlay), "RGB")
    IN  [mode |-> img1.mode, size |-> img1.size,
         color |-> color, text |-> wrap(text, GuiMaxChars)]

Render(mod, text, color, size) ==
    IF mod = "better_gui_concept" THEN RenderBetter(text, color, size)
    ELSE RenderGui(text, color, size)

\* The Image object built by one run of the body: a new object each time.
NewBitmap(id, img) ==
    [id |-> id, mode |-> img.mode, size |-> img.size,
     color |-> img.color, text |-> img.text]

NoBitmap == [id |-> 0, mode |-> "none", size |-> <<0, 0>>,
             color |-> <<0, 0, 0>>, text |-> ""]

(***************************************************************************)
(* The cache.  make_thumb is given as a function of the cache state        *)
(* st = [cache, composited, requested, nextId] to the state after the call *)
(* and the returned bitmap.                                                *)
(***************************************************************************)
EmptyCache == [k \in {} |-> NoBitmap]

\* Mutant of Key: colour channels rounded down to even values.
Key_rounded(text, color, size) ==
    <<text, <<2 * (color[1] \div 2), 2 * (color[2] \div 2),
              2 * (color[3] \div 2)>>, size>>

\* key = (text, color, size)
Key(text, color, size) == <<text, color, size>>

\* Mutant of CacheHit: the membership test always fails.
CacheHit_never(cache, key) == FALSE

\* if key in ASSET_CACHE
CacheHit(cache, key) == key \in DOMAIN cache

\* ASSET_CACHE[key] = canvas
Store(cache, key, canvas) == (key :> canvas) @@ cache

Count(bag, k) == IF k \in DOMAIN bag THEN bag[k] ELSE 0

Bump(bag, k) == (k :> (Count(bag, k) + 1)) @@ bag

CacheState == [cache |-> ASSET_CACHE, composited |-> composited,
               requested |-> requested, nextId |-> nextId]

\* One whole single-threaded call: the state after it, and its result.
make_thumb(mod, st, text, color, size) ==
    LET key == Key(text, color, size)
        asked == st.requested \cup {<<text, color, size>>}
        img == Render(mod, text, color, size)
    IN  IF CacheHit(st.cache, key)
        THEN [st |-> [st EXCEPT !.requested = asked],
              result |-> st.cache[key], raised |-> "none"]
        ELSE IF IsError(img)
        THEN [st |-> [st EXCEPT !.requested = asked],
              result |-> NoBitmap, raised |-> "ValueError"]
        ELSE LET canvas == NewBitmap(st.nextId, img)
             IN  [st |-> [cache |-> Store(st.cache, key, canvas),
                          composited |-> Bump(st.composited, key),
                          requested |-> asked,
                          nextId |-> st.nextId + 1],
                  result |-> canvas, raised |-> "none"]

SetCacheState(st) ==
    /\ ASSET_CACHE' = st.cache
    /\ composited' = st.composited
    /\ requested' = st.requested
    /\ nextId' = st.nextId

(***************************************************************************)
(* SpecThumb: single-threaded sequences of make_thumb calls.               *)
(***************************************************************************)
MaxCalls == 3

ThumbTexts == {"Learn PIL", "Learn PIL in 15 Minutes"}
ThumbColors == {<<220, 20, 60>>, <<220, 20, 61>>}
ThumbSizes == {<<480, 270>>, <<1280, 720>>, <<1, 1>>}

NoCall == [text |-> "", color |-> <<0, 0, 0>>, size |-> <<0, 0>>,
           hit |-> FALSE, bitmap |-> NoBitmap]

InitThumb ==
    /\ module \in Modules
    /\ WidgetIdle
    /\ ThumbIdle
    /\ WrapIdle
    /\ FmtIdle
    /\ ThreadsIdle
    /\ BuildIdle
    /\ GuiIdle

CallMakeThumb(text, color, size) ==
    /\ calls < MaxCalls
    /\ LET r == make_thumb(module, CacheState, text, color, size)
       IN  /\ SetCacheState(r.st)
           /\ ret' = [text |-> text, color |-> color, size |-> size,
                      hit |-> (r.st.nextId = nextId), bitmap |-> r.result]
    /\ calls' = calls + 1
    /\ UNCHANGED <<module, widgetVars, wrapVars, fmtVars, threadVars, buildVars, guiVars>>

NextThumb ==
    \E text \in ThumbTexts, color \in ThumbColors, size \in ThumbSizes :
        CallMakeThumb(text, color, size)

SpecThumb == InitThumb /\ [][NextThumb]_vars

(***************************************************************************)
(* Claims about the cache, single-threaded.                                *)
(***************************************************************************)
RetKey == <<ret.text, ret.color, ret.size>>

\* What one call may do, seen as a step from the state before it to the
\* state after it.
C1_Step ==
    /\ \* a stored key is never removed and never rebound
       \A k \in DOMAIN ASSET_CACHE :
           k \in DOMAIN ASSET_CACHE' /\ ASSET_CACHE'[k] = ASSET_CACHE[k]
    /\ \* a call for a stored key returns the stored instance, builds nothing
       RetKey' \in DOMAIN ASSET_CACHE =>
           /\ ret'.bitmap = ASSET_CACHE[RetKey']
           /\ ret'.hit
           /\ composited' = composited
           /\ nextId' = nextId
    /\ \* the first call for a key builds one bitmap and stores it
       RetKey' \notin DOMAIN ASSET_CACHE =>
           /\ ~ret'.hit
           /\ Count(composited, RetKey') = 0
           /\ Count(composited', RetKey') = 1
           /\ DOMAIN ASSET_CACHE' = DOMAIN ASSET_CACHE \cup {RetKey'}
           /\ ASSET_CACHE'[RetKey'] = ret'.bitmap
           /\ \A k \in DOMAIN ASSET_CACHE : ASSET_CACHE[k].id # ret'.bitmap.id
    /\ \* no key is ever composited twice
       \A k \in DOMAIN composited' : composited'[k] = 1

\* C1: in a single-threaded sequence of make_thumb calls the first call for
\* a key composites and stores one bitmap, every later call with an equal
\* key returns that same stored instance without compositing again, and a
\* stored key is never removed nor rebound.
C1_CacheIdentity == [][C1_Step]_vars

\* C1 witness: a later call for a key already stored returned the stored
\* instance.
C1_Witness ==
    /\ calls >= 2
    /\ ret.hit
    /\ RetKey \in DOMAIN ASSET_CACHE
    /\ ret.bitmap = ASSET_CACHE[RetKey]
    /\ composited[RetKey] = 1

\* C3: keys are compared on exactly the supplied (text, color, size): the
\* cache holds one entry per distinct triple requested, and two distinct
\* triples never share a bitmap.
C3_StructuralKeys ==
    /\ DOMAIN ASSET_CACHE = requested
    /\ Cardinality(DOMAIN ASSET_CACHE) = Cardinality(requested)
    /\ \A k1, k2 \in DOMAIN ASSET_CACHE :
           k1 # k2 => ASSET_CACHE[k1].id # ASSET_CACHE[k2].id
    /\ \A k \in DOMAIN ASSET_CACHE : ASSET_CACHE[k].color = k[2]

\* C3 witness: two requests that differ only by 1 in one colour channel
\* hold two entries with two bitmaps.
C3_Witness ==
    \E k1, k2 \in DOMAIN ASSET_CACHE :
        /\ k1[1] = k2[1] /\ k1[3] = k2[3]
        /\ k1[2] = <<220, 20, 60>> /\ k2[2] = <<220, 20, 61>>
        /\ ASSET_CACHE[k1].id # ASSET_CACHE[k2].id

\* C4 as claimed: the bitmap returned by make_thumb has exactly the target
\* width and height and four channels (RGBA).
C4_BitmapShape ==
    calls > 0 => /\ ret.bitmap.size = ret.size
                 /\ Channels(ret.bitmap.mode) = 4

(***************************************************************************)
(* SpecThreads: make_thumb called from several threads.  The interpreter   *)
(* may switch threads between the membership test, the body that builds    *)
(* the canvas, and the store; the sources take no lock.                     *)
(***************************************************************************)
NThreads == 2
MaxThreadCalls == 2

Threads == 1..NThreads

ThreadKeys == {<<"Learn PIL", c, <<480, 270>>>> : c \in ThumbColors}

InitThreads ==
    /\ module \in Modules
    /\ WidgetIdle
    /\ ThumbIdle
    /\ WrapIdle
    /\ FmtIdle
    /\ BuildIdle
    /\ GuiIdle
    /\ pc = [th \in Threads |-> "idle"]
    /\ req = [th \in Threads |-> <<"", <<0, 0, 0>>, <<0, 0>>>>]
    /\ tcanvas = [th \in Threads |-> NoBitmap]
    /\ tret = [th \in Threads |-> NoBitmap]
    /\ tcalls = [th \in Threads |-> 0]

\* A thread enters make_thumb(text, color, size): key = (text, color, size).
ThreadCall(th, k) ==
    /\ pc[th] = "idle"
    /\ tcalls[th] < MaxThreadCalls
    /\ req' = [req EXCEPT ![th] = k]
    /\ requested' = requested \cup {k}
    /\ tcalls' = [tcalls EXCEPT ![th] = @ + 1]
    /\ pc' = [pc EXCEPT ![th] = "test"]
    /\ UNCHANGED <<module, widgetVars, wrapVars, fmtVars, ASSET_CACHE, composited, nextId,
                   ret, calls, tcanvas, tret, buildVars, guiVars>>

\* if key in ASSET_CACHE: return ASSET_CACHE[key]
ThreadTest(th) ==
    /\ pc[th] = "test"
    /\ LET key == Key(req[th][1], req[th][2], req[th][3])
       IN  IF CacheHit(ASSET_CACHE, key)
           THEN /\ tret' = [tret EXCEPT ![th] = ASSET_CACHE[key]]
                /\ pc' = [pc EXCEPT ![th] = "idle"]
           ELSE /\ pc' = [pc EXCEPT ![th] = "render"]
                /\ UNCHANGED tret
    /\ UNCHANGED <<module, widgetVars, wrapVars, fmtVars, thumbVars, req, tcanvas, tcalls, buildVars, guiVars>>

\* The body: builds the canvas, a new Image object.
ThreadRender(th) ==
    /\ pc[th] = "render"
    /\ tcanvas' = [tcanvas EXCEPT ![th] =
                     NewBitmap(nextId, Render(module, req[th][1], req[th][2], req[th][3]))]
    /\ nextId' = nextId + 1
    /\ composited' = Bump(composited, Key(req[th][1], req[th][2], req[th][3]))
    /\ pc' = [pc EXCEPT ![th] = "store"]
    /\ UNCHANGED <<module, widgetVars, wrapVars, fmtVars, ASSET_CACHE, requested, ret, calls,
                   req, tret, tcalls, buildVars, guiVars>>

\* ASSET_CACHE[key] = canvas; return canvas
ThreadStore(th) ==
    /\ pc[th] = "store"
    /\ ASSET_CACHE' = Store(ASSET_CACHE, Key(req[th][1], req[th][2], req[th][3]),
                            tcanvas[th])
    /\ tret' = [tret EXCEPT ![th] = tcanvas[th]]
    /\ pc' = [pc EXCEPT ![th] = "idle"]
    /\ UNCHANGED <<module, widgetVars, wrapVars, fmtVars, composited, requested, nextId, ret,
                   calls, req, tcanvas, tcalls, buildVars, guiVars>>

NextThreads ==
    \E th \in Threads :
        \/ \E k \in ThreadKeys : ThreadCall(th, k)
        \/ ThreadTest(th)
        \/ ThreadRender(th)
        \/ ThreadStore(th)

SpecThreads == InitThreads /\ [][NextThreads]_vars

\* C2 as claimed: with concurrent callers the compositing runs at most once
\* per key, and every caller holds the bitmap instance stored in the cache
\* for its key.
C2_AtMostOneCompositing ==
    /\ \A k \in DOMAIN composited : composited[k] <= 1
    /\ \A th \in DOMAIN pc :
           (pc[th] = "idle" /\ tcalls[th] > 0) =>
               /\ req[th] \in DOMAIN ASSET_CACHE
               /\ tret[th] = ASSET_CACHE[req[th]]

(***************************************************************************)
(* The seeded generator.  random.Random is the standard library's          *)
(* generator, not code of the repository: it is modelled as a             *)
(* deterministic generator, a state fixed by the seed and advanced by      *)
(* every draw (a linear congruential stand-in for the Mersenne Twister).   *)
(***************************************************************************)
Seed == 42
NumVideos == 24

LcgModulus == 1048576
LcgMultiplier == 1021
LcgIncrement == 12345

\* random.Random(seed)
RandomSeeded(seed) == (seed * LcgMultiplier + LcgIncrement) % LcgModulus

Advance(g) == (g * LcgMultiplier + LcgIncrement) % LcgModulus

\* A draw below n: the value and the generator state after it.
randbelow(g, n) ==
    LET g1 == Advance(g)
        g2 == Advance(g1)
    IN  [v |-> ((g1 \div 512) * 2048 + (g2 \div 512)) % n, g |-> g2]

\* _random.choice(seq)
choice(g, seq) ==
    LET d == randbelow(g, Len(seq)) IN [v |-> seq[d.v + 1], g |-> d.g]

\* _random.randint(a, b)
randint(g, a, b) ==
    LET d == randbelow(g, b - a + 1) IN [v |-> a + d.v, g |-> d.g]

\* The pools.  Strings here are ASCII: the em dash (one character) in two
\* titles of gui_concept.py is written "-", and the three characters that
\* better_gui_concept.py holds in its place (U+201A, U+00C4, U+00EE) are
\* written ",Ai".
palette == << <<220, 20, 60>>, <<65, 105, 225>>, <<255, 140, 0>>, <<34, 139, 34>>,
              <<123, 104, 238>>, <<255, 99, 71>>, <<0, 191, 255>> >>

titles(mod) ==
    << "How to Build a Python GUI Like YouTube",
       "10 CustomTkinter Tips You Need",
       IF mod = "gui_concept" THEN "Lofi Beats to Code/Study To - 3 Hours"
                              ELSE "Lofi Beats to Code/Study To ,Ai 3 Hours",
       "The Secret History of GUIs",
       "I Recreated YouTube in 200 Lines (Kinda)",
       "Designing Dark Mode the Right Way",
       "Keyboard Shortcuts that Change Everything",
       "Productivity Myths Busted!",
       "Learn PIL in 15 Minutes",
       IF mod = "gui_concept" THEN "My Desk Setup 2025 - Minimal & Clean"
                              ELSE "My Desk Setup 2025 ,Ai Minimal & Clean" >>

channels == << "CodeGarden", "UI Nerd", "Midnight Dev", "PixelSmith",
               "The Pythonist", "DesignSense" >>

\* f"{n:02d}"
Pad2(n) == IF n < 10 THEN "0" \o ToString(n) ELSE ToString(n)

\* f"{h}:{m:02d}:{s:02d}"
Duration(h, m, s) == ToString(h) \o ":" \o Pad2(m) \o ":" \o Pad2(s)

\* gui_concept.py: the Video appended by iteration i of the for loop, and
\* the generator after its draws (keyword arguments evaluate left to right).
GuiRecord(i, g) ==
    LET dTitle == choice(g, titles("gui_concept"))
        dChannel == choice(dTitle.g, channels)
        dViews == randint(dChannel.g, 1000, 2500000)
        dAge == randint(dViews.g, 0, 900)
        dH == randint(dAge.g, 1, 2)
        dM == randint(dH.g, 0, 59)
        dS == randint(dM.g, 0, 59)
        dColor == choice(dS.g, palette)
    IN  [video |-> [id |-> "vid_" \o ToString(i), title |-> dTitle.v,
                    channel |-> dChannel.v, views |-> dViews.v,
                    age_days |-> dAge.v, duration |-> Duration(dH.v, dM.v, dS.v),
                    color |-> dColor.v],
         g |-> dColor.g]

\* better_gui_concept.py: the Video built for i by the list comprehension.
BetterRecord(i, g) ==
    LET dTitle == choice(g, titles("better_gui_concept"))
        dChannel == choice(dTitle.g, channels)
        dViews == randint(dChannel.g, 1000, 2500000)
        dAge == randint(dViews.g, 0, 900)
        dH == randint(dAge.g, 1, 2)
        dM == randint(dH.g, 0, 59)
        dS == randint(dM.g, 0, 59)
        dColor == choice(dS.g, palette)
    IN  [video |-> [id |-> "vid_" \o ToString(i), title |-> dTitle.v,
                    channel |-> dChannel.v, views |-> dViews.v,
                    age_days |-> dAge.v, duration |-> Duration(dH.v, dM.v, dS.v),
                    color |-> dColor.v],
         g |-> dColor.g]

Record(mod, i, g) ==
    IF mod = "better_gui_concept" THEN BetterRecord(i, g) ELSE GuiRecord(i, g)

(***************************************************************************)
(* SpecCatalog: the import-time build of MOCK_VIDEOS, run NumRuns times    *)
(* (one import per run of the program), each run with its own              *)
(* _random = random.Random(42), one record per step.                       *)
(***************************************************************************)
NumRuns == 2

Runs == 1..NumRuns

\* Mutant of FreshGenerator: the seed differs from run to run.
FreshGenerator_per_run(run) == RandomSeeded(Seed + run)

\* _random = random.Random(42), executed by every run.
FreshGenerator(run) == RandomSeeded(Seed)

InitCatalog ==
    /\ module \in Modules
    /\ WidgetIdle
    /\ WrapIdle
    /\ FmtIdle
    /\ ThumbIdle
    /\ ThreadsIdle
    /\ GuiIdle
    /\ rng = [run \in Runs |-> FreshGenerator(run)]
    /\ built = [run \in Runs |-> <<>>]

\* gui_concept.py: for i in range(24): MOCK_VIDEOS.append(Video(...))
BuildGui(run) ==
    /\ module = "gui_concept"
    /\ Len(built[run]) < NumVideos
    /\ LET r == GuiRecord(Len(built[run]), rng[run])
       IN  /\ built' = [built EXCEPT ![run] = Append(@, r.video)]
           /\ rng' = [rng EXCEPT ![run] = r.g]
    /\ UNCHANGED <<module, widgetVars, wrapVars, fmtVars, thumbVars, threadVars, guiVars>>

\* better_gui_concept.py: [Video(...) for i in range(24)]
BuildBetter(run) ==
    /\ module = "better_gui_concept"
    /\ Len(built[run]) < NumVideos
    /\ LET r == BetterRecord(Len(built[run]), rng[run])
       IN  /\ built' = [built EXCEPT ![run] = Append(@, r.video)]
           /\ rng' = [rng EXCEPT ![run] = r.g]
    /\ UNCHANGED <<module, widgetVars, wrapVars, fmtVars, thumbVars, threadVars, guiVars>>

NextCatalog ==
    \/ \E run \in Runs : BuildGui(run)
    \/ \E run \in Runs : BuildBetter(run)

SpecCatalog == InitCatalog /\ [][NextCatalog]_vars

Min(a, b) == IF a < b THEN a ELSE b

LowerOf ==
    [A |-> "a", B |-> "b", C |-> "c", D |-> "d", E |-> "e", F |-> "f", G |-> "g",
     H |-> "h", I |-> "i", J |-> "j", K |-> "k", L |-> "l", M |-> "m", N |-> "n",
     O |-> "o", P |-> "p", Q |-> "q", R |-> "r", S |-> "s", T |-> "t", U |-> "u",
     V |-> "v", W |-> "w", X |-> "x", Y |-> "y", Z |-> "z"]

LowerChar(c) == IF c \in DOMAIN LowerOf THEN LowerOf[c] ELSE c

\* str.lower()
RECURSIVE lower(_)
lower(s) == IF s = "" THEN "" ELSE LowerChar(CharAt(s, 1)) \o lower(SubSeq(s, 2, Len(s)))

\* q in s
Contains(s, q) ==
    \/ q = ""
    \/ \E i \in 1..(Len(s) - Len(q) + 1) : SubSeq(s, i, i + Len(q) - 1) = q

\* str.strip()
RECURSIVE strip(_)
strip(s) ==
    IF s = "" THEN ""
    ELSE IF IsSpace(CharAt(s, 1)) THEN strip(SubSeq(s, 2, Len(s)))
    ELSE IF IsSpace(CharAt(s, Len(s))) THEN strip(SubSeq(s, 1, Len(s) - 1))
    ELSE s

\* list(reversed(seq))
Reversed(seq) == [i \in 1..Len(seq) |-> seq[Len(seq) + 1 - i]]

\* seq[a:b] for 0 <= a <= b (Python indices)
Slice(seq, a, b) == SubSeq(seq, a + 1, Min(b, Len(seq)))

\* sorted(seq, key=lambda v: v.views, reverse=True): stable.
RECURSIVE InsertByViews(_, _)
InsertByViews(sortedSeq, v) ==
    IF sortedSeq = <<>> THEN <<v>>
    ELSE IF Head(sortedSeq).views >= v.views
         THEN <<Head(sortedSeq)>> \o InsertByViews(Tail(sortedSeq), v)
         ELSE <<v>> \o sortedSeq

RECURSIVE SortedByViewsDesc(_)
SortedByViewsDesc(seq) ==
    IF seq = <<>> THEN <<>>
    ELSE InsertByViews(SortedByViewsDesc(SubSeq(seq, 1, Len(seq) - 1)), seq[Len(seq)])

\* The whole import-time build of MOCK_VIDEOS.
RECURSIVE BuildFrom(_, _, _)
BuildFrom(mod, i, g) ==
    IF i = NumVideos THEN <<>>
    ELSE LET r == Record(mod, i, g) IN <<r.video>> \o BuildFrom(mod, i + 1, r.g)

Catalog(mod) == BuildFrom(mod, 0, RandomSeeded(Seed))

(***************************************************************************)
(* Cards and overlays: the make_thumb calls they make.                     *)
(***************************************************************************)
CardSize == <<480, 270>>
PlayerSize == <<1280, 720>>
GuiRecSize == <<320, 180>>
RecCount == 12

(***************************************************************************)
(* int(c * 1.05) and int(c * 0.92): the product of an int and a float      *)
(* literal.  A literal is the IEEE-754 double nearest to it, m * 2^-s with *)
(* a 53-bit m; the product c * m is exact, is rounded to 53 significant    *)
(* bits (ties to even) and truncated by int().  Numbers of more than 31    *)
(* bits are held as three limbs <<high, middle, low>> of 20 bits.          *)
(***************************************************************************)
Limb == 1048576

\* The literal 1.05 = 4728779608739021 * 2^-52
Double105 == [m |-> <<4300, 838860, 838861>>, s |-> 52]

\* The literal 0.92 = 8286623314361713 * 2^-53
Double092 == [m |-> <<7536, 671088, 671089>>, s |-> 53]

\* The exact product c * m.
Times(c, m) ==
    LET p3 == c * m[3]
        p2 == c * m[2] + p3 \div Limb
        p1 == c * m[1] + p2 \div Limb
    IN  <<p1, p2 % Limb, p3 % Limb>>

\* p + n for a small n, carries propagated.
AddLow(p, n) ==
    LET q3 == p[3] + n
        q2 == p[2] + q3 \div Limb
    IN  <<p[1] + q2 \div Limb, q2 % Limb, q3 % Limb>>

\* Round to nearest, ties to even, at 53 significant bits.
RoundToDouble(p) ==
    LET d == 2 * 20 + BitLength(p[1]) - 53
        unit == 2 ^ d
        r == p[3] % unit
        keptOdd == (p[3] \div unit) % 2 = 1
        down == <<p[1], p[2], p[3] - r>>
    IN  IF p[1] = 0 \/ d <= 0 THEN p
        ELSE IF 2 * r > unit \/ (2 * r = unit /\ keptOdd) THEN AddLow(down, unit)
        ELSE down

\* int(c * f) for 0 <= c < 2048 (products within 31 bits per limb)
MulTrunc(c, f) == RoundToDouble(Times(c, f.m))[1] \div (2 ^ (f.s - 2 * 20))

Max(a, b) == IF a > b THEN a ELSE b

\* Mutant of Brighter: the product is cut to a byte instead of clamped.
Brighter_wrapped(color) == [i \in 1..3 |-> MulTrunc(color[i], Double105) % 256]

\* tuple(min(255, int(c * 1.05)) for c in video.color)
Brighter(color) == [i \in 1..3 |-> Min(255, MulTrunc(color[i], Double105))]

\* tuple(max(0, int(c * 0.92)) for c in video.color)
Darker(color) == [i \in 1..3 |-> Max(0, MulTrunc(color[i], Double092))]

\* VideoCard.__init__: the make_thumb calls, in order.
CardRequests(mod, v) ==
    IF mod = "better_gui_concept"
    THEN << <<v.title, v.color, CardSize>>,
            <<v.title, Brighter(v.color), CardSize>>,
            <<v.title, Darker(v.color), CardSize>> >>
    ELSE << <<v.title, v.color, CardSize>> >>

\* Mutant of RecRequests: better_gui_concept.py too renders the
\* recommendations at 320x180, as gui_concept.py does.
RecRequests_small(mod, recs) ==
    [i \in 1..(2 * Len(recs)) |->
        <<recs[(i + 1) \div 2].title, recs[(i + 1) \div 2].color, GuiRecSize>>]

\* PlayerOverlay.__init__: the big image, then two calls per recommendation.
RecRequests(mod, recs) ==
    [i \in 1..(2 * Len(recs)) |->
        <<recs[(i + 1) \div 2].title, recs[(i + 1) \div 2].color,
          IF mod = "better_gui_concept" THEN CardSize ELSE GuiRecSize>>]

OverlayRequests(mod, v, catalog) ==
    << <<v.title, v.color, PlayerSize>> >> \o RecRequests(mod, Slice(catalog, 0, RecCount))

\* A run of make_thumb calls reqs[lo..hi], made in order: the cache state
\* after them and the identities of the bitmaps returned.  (The run is
\* split in halves, the first half feeding the second, to keep the
\* evaluation shallow.)
RECURSIVE RunThumbs(_, _, _, _, _)
RunThumbs(mod, st, reqs, lo, hi) ==
    IF lo > hi THEN [st |-> st, got |-> <<>>]
    ELSE IF lo = hi
    THEN LET r == make_thumb(mod, st, reqs[lo][1], reqs[lo][2], reqs[lo][3])
         IN  [st |-> r.st, got |-> <<r.result.id>>]
    ELSE LET mid == (lo + hi) \div 2
             left == RunThumbs(mod, st, reqs, lo, mid)
             right == RunThumbs(mod, left.st, reqs, mid + 1, hi)
         IN  [got |-> left.got \o right.got, st |-> right.st]

MakeThumbs(mod, st, reqs) == RunThumbs(mod, st, reqs, 1, Len(reqs))

\* Number of make_thumb calls of one VideoCard.
FramesPerCard(mod) == IF mod = "better_gui_concept" THEN 3 ELSE 1

\* The calls of the cards built for videos, card after card.
AllCardRequests(mod, videos) ==
    [j \in 1..(Len(videos) * FramesPerCard(mod)) |->
        LET card == CardRequests(mod, videos[((j - 1) \div FramesPerCard(mod)) + 1])
        IN  card[((j - 1) % FramesPerCard(mod)) + 1]]

\* VideoGrid.populate(videos): the old cards are destroyed, one VideoCard is
\* built per video, holding the bitmaps its make_thumb calls returned.
populate(mod, st, videos) ==
    LET r == MakeThumbs(mod, st, AllCardRequests(mod, videos))
        n == FramesPerCard(mod)
    IN  [st |-> r.st,
         cards |-> [i \in 1..Len(videos) |->
                       [video |-> videos[i],
                        frames |-> SubSeq(r.got, (i - 1) * n + 1, i * n)]]]

\* VideoGrid.filter: the videos whose title or channel holds the query.
Matches(q, v) == Contains(lower(v.title), q) \/ Contains(lower(v.channel), q)

Visible(query, catalog) == SelectSeq(catalog, LAMBDA v : Matches(lower(query), v))

\* Mutant of NavEffect: the library and liked views rearrange the catalog
\* in place (MOCK_VIDEOS.reverse(), MOCK_VIDEOS.sort(...)).
NavEffect_inplace(key, catalog) ==
    CASE key = "home" -> [shown |-> catalog, catalog |-> catalog, act |-> TRUE]
      [] key = "subs" -> [shown |-> Slice(catalog, 0, 12), catalog |-> catalog, act |-> TRUE]
      [] key = "library" ->
            [shown |-> Reversed(catalog), catalog |-> Reversed(catalog), act |-> TRUE]
      [] key = "history" -> [shown |-> Slice(catalog, 6, 18), catalog |-> catalog, act |-> TRUE]
      [] key = "liked" ->
            [shown |-> Slice(SortedByViewsDesc(catalog), 0, 12),
             catalog |-> SortedByViewsDesc(catalog), act |-> TRUE]
      [] OTHER -> [shown |-> <<>>, catalog |-> catalog, act |-> FALSE]

\* App._on_nav(key): the list handed to populate, the catalog after the
\* expression that built it (slices, list(reversed(...)) and sorted(...)
\* make new lists), and whether any branch ran.
NavEffect(key, catalog) ==
    CASE key = "home" -> [shown |-> catalog, catalog |-> catalog, act |-> TRUE]
      [] key = "subs" -> [shown |-> Slice(catalog, 0, 12), catalog |-> catalog, act |-> TRUE]
      [] key = "library" -> [shown |-> Reversed(catalog), catalog |-> catalog, act |-> TRUE]
      [] key = "history" -> [shown |-> Slice(catalog, 6, 18), catalog |-> catalog, act |-> TRUE]
      [] key = "liked" ->
            [shown |-> Slice(SortedByViewsDesc(catalog), 0, 12),
             catalog |-> catalog, act |-> TRUE]
      [] OTHER -> [shown |-> <<>>, catalog |-> catalog, act |-> FALSE]

(***************************************************************************)
(* Spec: the application, from the imported module on.                     *)
(***************************************************************************)
MaxOverlays == 1

NavKeys == {"home", "scenes", "subs", "library", "history", "liked"}

\* Grid positions of the cards that get clicked.
ClickedCards == {1, 12, 24}

\* Texts typed into the search entry.
Entries == {" Python ", "UI Nerd", "no such video"}

Init ==
    /\ module \in Modules
    /\ WidgetIdle
    /\ WrapIdle
    /\ FmtIdle
    /\ ThumbIdle
    /\ ThreadsIdle
    /\ BuildIdle
    /\ phase = "imported"
    /\ MOCK_VIDEOS = Catalog(module)
    /\ cards = <<>>
    /\ overlays = <<>>

\* App.__init__: HomeView.__init__ populates the grid with MOCK_VIDEOS.
AppInit ==
    /\ phase = "imported"
    /\ \E r \in {populate(module, CacheState, MOCK_VIDEOS)} :
           /\ SetCacheState(r.st)
           /\ cards' = r.cards
    /\ phase' = "running"
    /\ UNCHANGED <<module, widgetVars, wrapVars, fmtVars, ret, calls, threadVars, buildVars,
                   MOCK_VIDEOS, overlays>>

\* App._on_nav(key)
OnNav(key) ==
    /\ phase = "running"
    /\ \E eff \in {NavEffect(key, MOCK_VIDEOS)} :
           /\ MOCK_VIDEOS' = eff.catalog
           /\ IF eff.act
              THEN \E r \in {populate(module, CacheState, eff.shown)} :
                       SetCacheState(r.st) /\ cards' = r.cards
              ELSE UNCHANGED <<cacheVars, cards>>
    /\ UNCHANGED <<module, widgetVars, wrapVars, fmtVars, ret, calls, threadVars, buildVars,
                   phase, overlays>>

\* App._on_search(query), called with the stripped text of the entry.
OnSearch(entry) ==
    /\ phase = "running"
    /\ \E r \in {populate(module, CacheState, Visible(strip(entry), MOCK_VIDEOS))} :
           /\ SetCacheState(r.st)
           /\ cards' = r.cards
    /\ UNCHANGED <<module, widgetVars, wrapVars, fmtVars, ret, calls, threadVars, buildVars,
                   phase, MOCK_VIDEOS, overlays>>

\* A click on card i: App._open_video(video) builds a PlayerOverlay.
OpenVideo(i) ==
    /\ phase = "running"
    /\ Len(overlays) < MaxOverlays
    /\ i \in 1..Len(cards)
    /\ \E r \in {MakeThumbs(module, CacheState,
                            OverlayRequests(module, cards[i].video, MOCK_VIDEOS))} :
           /\ SetCacheState(r.st)
           /\ overlays' = Append(overlays, cards[i].video.id)
    /\ UNCHANGED <<module, widgetVars, wrapVars, fmtVars, ret, calls, threadVars, buildVars,
                   phase, MOCK_VIDEOS, cards>>

Next ==
    \/ AppInit
    \/ \E key \in NavKeys : OnNav(key)
    \/ \E entry \in Entries : OnSearch(entry)
    \/ \E i \in ClickedCards : OpenVideo(i)

Spec == Init /\ [][Next]_vars

\* C10: after the initial build no GUI operation (navigation, search, grid
\* populate, opening a player overlay) changes the catalog: MOCK_VIDEOS
\* keeps its 24 records, in the same order, with the same field values.
C10_CatalogReadOnly ==
    [][MOCK_VIDEOS' = MOCK_VIDEOS /\ Len(MOCK_VIDEOS') = NumVideos]_vars

\* C10 witness: the grid shows the catalog rearranged (the liked view: the
\* twelve most viewed first) and an overlay is open, with the catalog still
\* equal to the initial build.
C10_Witness ==
    /\ phase = "running"
    /\ Len(overlays) >= 1
    /\ Len(cards) = 12
    /\ cards[1].video # MOCK_VIDEOS[1]
    /\ \A i \in 1..11 : cards[i].video.views >= cards[i + 1].video.views
    /\ MOCK_VIDEOS = Catalog(module)

(***************************************************************************)
(* SpecColor: a VideoCard derives the brighter and darker variants of its  *)
(* video's accent colour.  Every channel value 0..255 occurs.              *)
(***************************************************************************)
ChannelMax == 255

ChannelPivots == {0, 127, 255}

Colors == {<<c, ChannelMax - c, d>> : c \in 0..ChannelMax, d \in ChannelPivots}

InitColor ==
    /\ module \in Modules
    /\ WrapIdle /\ FmtIdle /\ ThumbIdle /\ ThreadsIdle /\ BuildIdle /\ GuiIdle
    /\ ErrIdle /\ SidebarIdle /\ HoverIdle /\ RippleIdle
    /\ accent \in Colors
    /\ variants = <<>>

\* VideoCard.__init__: the colours handed to the second and third make_thumb.
DeriveVariants ==
    /\ variants = <<>>
    /\ variants' = <<Brighter(accent), Darker(accent)>>
    /\ UNCHANGED <<module, wrapVars, fmtVars, thumbVars, threadVars, buildVars,
                   guiVars, accent, raised, sidebarVars, hoverVars, rippleVars>>

NextColor == DeriveVariants

SpecColor == InitColor /\ [][NextColor]_vars

\* floor(c * n / 100) clamped to [0, 255], in exact integer arithmetic.
ClampedFloor(c, n) == Max(0, Min(255, (c * n) \div 100))

\* C11: for an accent colour with channels in 0..255, each channel of the
\* brighter (1.05) and darker (0.92) variants is an integer in [0, 255],
\* equal to floor(channel * factor) clamped to [0, 255].
C11_VariantsClamped ==
    variants # <<>> =>
        \A i \in 1..3 :
            /\ variants[1][i] \in 0..255
            /\ variants[2][i] \in 0..255
            /\ variants[1][i] = ClampedFloor(accent[i], 105)
            /\ variants[2][i] = ClampedFloor(accent[i], 92)

\* C11 witness: variants derived for a colour where the clamp acts
\* (255 * 1.05 = 267.75 gives 255) next to a channel of 0.
C11_Witness ==
    /\ variants # <<>>
    /\ accent[1] = 255
    /\ variants[1][1] = 255
    /\ variants[2][1] = 234
    /\ variants[1][2] = 0

(***************************************************************************)
(* Claims about the growth of the cache under the application (Spec).      *)
(***************************************************************************)
\* The distinct (title, accent colour) pairs of the catalog.
CatalogPairs ==
    {<<MOCK_VIDEOS[i].title, MOCK_VIDEOS[i].color>> : i \in 1..Len(MOCK_VIDEOS)}

ClampedVariant(color, n) == [i \in 1..3 |-> ClampedFloor(color[i], n)]

\* The keys the workload may store for a pair.  better_gui_concept.py: base,
\* brighter and darker at 480x270 and the base colour at 1280x720;
\* gui_concept.py draws no variant and renders recommendations at 320x180.
WorkloadKeys(mod, pair) ==
    IF mod = "better_gui_concept"
    THEN {<<pair[1], pair[2], <<480, 270>>>>,
          <<pair[1], ClampedVariant(pair[2], 105), <<480, 270>>>>,
          <<pair[1], ClampedVariant(pair[2], 92), <<480, 270>>>>,
          <<pair[1], pair[2], <<1280, 720>>>>}
    ELSE {<<pair[1], pair[2], <<480, 270>>>>,
          <<pair[1], pair[2], <<320, 180>>>>,
          <<pair[1], pair[2], <<1280, 720>>>>}

CacheWithinWorkload ==
    /\ DOMAIN ASSET_CACHE \subseteq UNION {WorkloadKeys(module, p) : p \in CatalogPairs}
    /\ \A p \in CatalogPairs :
           Cardinality(DOMAIN ASSET_CACHE \cap WorkloadKeys(module, p)) <= 4
    /\ Cardinality(DOMAIN ASSET_CACHE) <= 4 * NumVideos

\* C13: after any sequence of grid populations, searches, navigations and
\* overlay openings the cache holds at most four entries per distinct
\* (title, accent colour) pair of the catalog (base, brighter and darker at
\* 480x270, one at 1280x720), hence at most 96, and an operation that asks
\* only for thumbnails asked for before (as every repeated operation does)
\* adds no entry.
C13_CacheBounded ==
    /\ [](phase = "running" => CacheWithinWorkload)
    /\ [][requested' = requested => ASSET_CACHE' = ASSET_CACHE]_vars

\* C13 witness: better_gui_concept.py with an overlay open on a video whose
\* pair holds all four of its entries, every card thumbnail being stored.
C13_Witness ==
    /\ module = "better_gui_concept"
    /\ phase = "running"
    /\ overlays # <<>>
    /\ \E p \in CatalogPairs :
           /\ Cardinality(WorkloadKeys(module, p)) = 4
           /\ WorkloadKeys(module, p) \subseteq DOMAIN ASSET_CACHE
    /\ Cardinality(DOMAIN ASSET_CACHE) > Cardinality(CatalogPairs)

(***************************************************************************)
(* SpecSizes: make_thumb called with any size, also sizes with a side that *)
(* is zero or negative.  Neither source file tests the size; what happens  *)
(* is what the PIL calls of the body do with it.                           *)
(***************************************************************************)
AnySizes == {<<480, 270>>, <<0, 180>>, <<320, 0>>, <<0, 0>>, <<-1, -1>>, <<-320, 180>>}

InitSizes ==
    /\ module \in Modules
    /\ WrapIdle /\ FmtIdle /\ ThumbIdle /\ ThreadsIdle /\ BuildIdle /\ GuiIdle
    /\ ColorIdle /\ ErrIdle /\ SidebarIdle /\ HoverIdle /\ RippleIdle

\* make_thumb(text, color, size): it returns a bitmap or an exception leaves it.
CallSized(text, color, size) ==
    /\ calls < MaxCalls
    /\ \E r \in {make_thumb(module, CacheState, text, color, size)} :
           /\ SetCacheState(r.st)
           /\ ret' = [text |-> text, color |-> color, size |-> size,
                      hit |-> (r.raised = "none" /\ r.st.nextId = nextId),
                      bitmap |-> r.result]
           /\ raised' = r.raised
    /\ calls' = calls + 1
    /\ UNCHANGED <<module, wrapVars, fmtVars, threadVars, buildVars, guiVars,
                   colorVars, sidebarVars, hoverVars, rippleVars>>

NextSizes ==
    \E text \in ThumbTexts, color \in ThumbColors, size \in AnySizes :
        CallSized(text, color, size)

SpecSizes == InitSizes /\ [][NextSizes]_vars

\* C12: a make_thumb request whose width or height is zero or negative is
\* rejected with an invalid-argument error, and the rejected request leaves
\* the cache unchanged (no entry is stored for that key).
C12_BadSizeRejected ==
    [][(ret'.size[1] <= 0 \/ ret'.size[2] <= 0) =>
          /\ raised' = "ValueError"
          /\ ASSET_CACHE' = ASSET_CACHE
          /\ RetKey' \notin DOMAIN ASSET_CACHE']_vars

(***************************************************************************)
(* SpecSidebar: the sidebar under <Configure> events and menu-button       *)
(* toggles.  gui_concept.py: SideBar.set_collapsed.  better_gui_concept.py:*)
(* SlidingSidebar, whose slide_to runs an animation of after() callbacks.  *)
(* All callbacks are scheduled with one delay (160 // 16 ms), and Tk runs  *)
(* timer callbacks in the order they fall due, so the pending callbacks    *)
(* form a queue: slides.                                                   *)
(***************************************************************************)
Breakpoint == 1100
TargetWidth == 240
SlideSteps == 16
StartWidth == 1280

MaxSlides == 2

\* Window widths at <Configure> events (minsize is 980).
Widths == {980, 1099, 1100, 1280}

\* int(x) of the exact quotient n / d, d > 0: truncation toward zero.
TruncDiv(n, d) == IF n >= 0 THEN n \div d ELSE -((-n) \div d)

InitSidebar ==
    /\ module \in Modules
    /\ WrapIdle /\ FmtIdle /\ ThumbIdle /\ ThreadsIdle /\ BuildIdle /\ GuiIdle
    /\ ColorIdle /\ ErrIdle /\ HoverIdle /\ RippleIdle
    /\ width = StartWidth
    /\ collapsed = FALSE
    /\ _visible = (module = "better_gui_concept")
    /\ _cur = IF module = "better_gui_concept" THEN TargetWidth ELSE 0
    /\ applied = IF module = "better_gui_concept" THEN TargetWidth ELSE 0
    /\ slides = <<>>
    /\ last = [op |-> "init", overlapped |-> FALSE]

\* SideBar.set_collapsed(c)
set_collapsed(c) == collapsed' = c

\* AnimStep whose last run applies the target width but leaves _cur alone.
AnimStep_unsettled(a, cur) ==
    IF a.i < SlideSteps
    THEN [applied |-> TruncDiv(a.w0 * SlideSteps + (a.target - a.w0) * a.i, SlideSteps),
          cur |-> cur,
          again |-> <<[a EXCEPT !.i = a.i + 1]>>]
    ELSE [applied |-> a.target, cur |-> cur, again |-> <<>>]

\* One run of anim() of the animation a = [w0, target, i]: the width it
\* applies, the value it leaves in _cur, and the callback it schedules.
\* dw = (target - w0) / steps is exact (steps is a power of two), so
\* int(w0 + dw * i) is the exact quotient truncated.
AnimStep(a, cur) ==
    IF a.i < SlideSteps
    THEN [applied |-> TruncDiv(a.w0 * SlideSteps + (a.target - a.w0) * a.i, SlideSteps),
          cur |-> cur,
          again |-> <<[a EXCEPT !.i = a.i + 1]>>]
    ELSE [applied |-> a.target, cur |-> a.target, again |-> <<>>]

\* slide_to(w_target): w0 = self._cur, i = 0
SlideStart(cur, target) == [w0 |-> cur, target |-> target, i |-> 0]

\* SlidingSidebar.toggle(): slide_to runs anim() once at once, then
\* _visible flips.  The op is recorded with whether an earlier animation
\* was still running.
toggle(op) ==
    /\ Len(slides) < MaxSlides
    /\ last' = [op |-> op, overlapped |-> slides # <<>>]
    /\ LET a == SlideStart(_cur, IF _visible THEN 0 ELSE TargetWidth)
           r == AnimStep(a, _cur)
       IN  /\ applied' = r.applied
           /\ _cur' = r.cur
           /\ slides' = slides \o r.again
    /\ _visible' = ~_visible

\* App.toggle_sidebar, the command of the menu button.
ToggleSidebar ==
    /\ IF module = "gui_concept"
       THEN /\ set_collapsed(~collapsed)
            /\ last' = [last EXCEPT !.op = "toggle"]
            /\ UNCHANGED <<_visible, _cur, applied, slides>>
       ELSE toggle("toggle") /\ UNCHANGED collapsed
    /\ UNCHANGED <<module, wrapVars, fmtVars, thumbVars, threadVars, buildVars,
                   guiVars, colorVars, raised, hoverVars, rippleVars, width>>

\* Mutant of want_open: the breakpoint itself counts as narrow.
want_open_above(w) == w > Breakpoint

\* want_open = width >= 1100
want_open(w) == w >= Breakpoint

\* App._on_resize with winfo_width() = w.
OnResize(w) ==
    /\ width' = w
    /\ IF module = "gui_concept"
       THEN /\ set_collapsed(w < Breakpoint)
            /\ last' = [last EXCEPT !.op = "resize"]
            /\ UNCHANGED <<_visible, _cur, applied, slides>>
       ELSE /\ IF want_open(w) # _visible
               THEN toggle("resize")
               ELSE /\ last' = [last EXCEPT !.op = "resize"]
                    /\ UNCHANGED <<_visible, _cur, applied, slides>>
            /\ UNCHANGED collapsed
    /\ UNCHANGED <<module, wrapVars, fmtVars, thumbVars, threadVars, buildVars,
                   guiVars, colorVars, raised, hoverVars, rippleVars>>

\* The callback at the head of the queue runs: anim().
Anim ==
    /\ slides # <<>>
    /\ LET r == AnimStep(Head(slides), _cur)
       IN  /\ applied' = r.applied
           /\ _cur' = r.cur
           /\ slides' = Tail(slides) \o r.again
    /\ last' = [last EXCEPT !.op = "anim"]
    /\ UNCHANGED <<module, wrapVars, fmtVars, thumbVars, threadVars, buildVars,
                   guiVars, colorVars, raised, hoverVars, rippleVars,
                   width, collapsed, _visible>>

NextSidebar ==
    \/ ToggleSidebar
    \/ \E w \in Widths : OnResize(w)
    \/ Anim

SpecSidebar == InitSidebar /\ [][NextSidebar]_vars

\* The settings of the sidebar that a handler can change.
sidebarState == <<collapsed, _visible, _cur, applied, slides>>

\* Does the sidebar already agree with a window of width w
SidebarAgrees(w) ==
    IF module = "gui_concept" THEN collapsed = (w < Breakpoint)
                              ELSE _visible = (w >= Breakpoint)

\* C14: a step of the resize handler ends with the sidebar collapsed
\* (gui_concept) or hidden (better_gui_concept) exactly when the window is
\* narrower than 1100, whatever toggles came before, and it touches nothing
\* of the sidebar when the sidebar agreed with the new width already.
C14_ResponsiveSidebar ==
    [][last'.op = "resize" =>
          /\ module = "gui_concept" => collapsed' = (width' < 1100)
          /\ module = "better_gui_concept" => _visible' = (width' >= 1100)
          /\ SidebarAgrees(width') => sidebarState' = sidebarState]_vars

\* A resize at a wide window has just re-opened a sidebar that the menu
\* button had hidden, while the hiding animation was still running.
C14_Witness ==
    /\ module = "better_gui_concept"
    /\ last = [op |-> "resize", overlapped |-> TRUE]
    /\ width >= Breakpoint /\ _visible

\* A resize handled by gui_concept collapsed the sidebar at 1099.
C14_WitnessGui ==
    /\ module = "gui_concept" /\ last.op = "resize" /\ width = 1099 /\ collapsed

\* C17: in better_gui_concept, whenever no animation callback is pending,
\* the width applied to the sidebar and _cur both equal _target_width if
\* _visible and 0 otherwise; this holds after overlapping toggles too.
C17_SlideConverges ==
    (module = "better_gui_concept" /\ slides = <<>>) =>
        /\ applied = (IF _visible THEN TargetWidth ELSE 0)
        /\ _cur = (IF _visible THEN TargetWidth ELSE 0)

\* All callbacks have fired after a toggle that was issued while an
\* earlier animation was running, and the sidebar is hidden.
C17_Witness ==
    /\ module = "better_gui_concept"
    /\ slides = <<>> /\ last = [op |-> "anim", overlapped |-> TRUE]
    /\ ~_visible /\ applied = 0

(***************************************************************************)
(* Claims about the words wrap returns (SpecWrap).                         *)
(***************************************************************************)
\* The words of the lines of a string, read in order across the lines.
RECURSIVE WordsOfLines(_)
WordsOfLines(lines) ==
    IF lines = <<>> THEN <<>> ELSE split(Head(lines)) \o WordsOfLines(Tail(lines))

IsPrefix(p, q) == Len(p) <= Len(q) /\ SubSeq(q, 1, Len(p)) = p

\* C15 as claimed: for a text with at least one word, no returned line is
\* empty, the first returned line starts with the first word of the text,
\* and the returned words in order are a prefix of the words of the text.
C15_NoEmptyLine ==
    (wrap_pc = "done" /\ split(t) # <<>>) =>
        LET lines == LinesOf(wrapped)
        IN  /\ \A i \in 1..Len(lines) : lines[i] # ""
            /\ IsPrefix(split(t)[1], lines[1])
            /\ IsPrefix(WordsOfLines(lines), split(t))

(***************************************************************************)
(* SpecHover: one HoverThumb under <Enter> and <Leave> events and the      *)
(* ticks of its after(300, tick) timers.  An after id is a positive        *)
(* number; None is 0.                                                      *)
(***************************************************************************)
MaxFrames == 3
MaxJobs == 10

InitHover ==
    /\ module = "better_gui_concept"
    /\ WrapIdle /\ FmtIdle /\ ThumbIdle /\ ThreadsIdle /\ BuildIdle /\ GuiIdle
    /\ ColorIdle /\ ErrIdle /\ SidebarIdle /\ RippleIdle
    /\ _frames \in 1..MaxFrames
    /\ _hover = FALSE
    /\ _idx = 0
    /\ _cycle_job = 0
    /\ timers = {}
    /\ nextJob = 1
    /\ ticked = FALSE

\* Mutant of NeedsTimer: _start_cycle schedules a tick whatever _cycle_job is.
NeedsTimer_always(job) == TRUE

\* if not self._cycle_job
NeedsTimer(job) == job = 0

\* self._cycle_job = self.after(300, tick), with the timers left in `pending`
after_tick(pending) ==
    /\ nextJob <= MaxJobs
    /\ timers' = pending \cup {nextJob}
    /\ _cycle_job' = nextJob
    /\ nextJob' = nextJob + 1

\* HoverThumb._enter, with _start_cycle
Enter ==
    /\ _hover' = TRUE
    /\ IF NeedsTimer(_cycle_job)
       THEN after_tick(timers)
       ELSE UNCHANGED <<timers, _cycle_job, nextJob>>
    /\ ticked' = FALSE
    /\ UNCHANGED <<module, wrapVars, fmtVars, thumbVars, threadVars, buildVars,
                   guiVars, colorVars, raised, sidebarVars, rippleVars,
                   _frames, _idx>>

\* HoverThumb._leave
Leave ==
    /\ _hover' = FALSE
    /\ IF _cycle_job # 0
       THEN timers' = timers \ {_cycle_job} /\ _cycle_job' = 0
       ELSE UNCHANGED <<timers, _cycle_job>>
    /\ ticked' = FALSE
    /\ UNCHANGED <<module, wrapVars, fmtVars, thumbVars, threadVars, buildVars,
                   guiVars, colorVars, raised, sidebarVars, rippleVars,
                   _frames, _idx, nextJob>>

\* The timer with after id j falls due: tick() runs.
Tick(j) ==
    /\ j \in timers
    /\ _idx' = (_idx + 1) % _frames
    /\ after_tick(timers \ {j})
    /\ ticked' = TRUE
    /\ UNCHANGED <<module, wrapVars, fmtVars, thumbVars, threadVars, buildVars,
                   guiVars, colorVars, raised, sidebarVars, rippleVars,
                   _frames, _hover>>

NextHover ==
    \/ Enter
    \/ Leave
    \/ \E j \in timers : Tick(j)

SpecHover == InitHover /\ [][NextHover]_vars

\* C16: at most one tick timer is pending; one is pending exactly when
\* _hover is True; _idx is a valid index into the frames; and while the
\* pointer stays outside (from a Leave to the next Enter) no tick runs and
\* _idx does not change.
C16_OneTimerWhileHovering ==
    /\ [](/\ Cardinality(timers) <= 1
          /\ (timers # {}) <=> _hover
          /\ _idx \in 0..(_frames - 1))
    /\ [][~_hover => (_idx' = _idx /\ (_hover' \/ ~ticked'))]_vars

\* The pointer has left after ticks moved the frame index, then entered
\* again twice in a row: one timer is pending and the index is kept.
C16_Witness ==
    /\ _hover /\ ~ticked /\ _idx = 2 /\ Cardinality(timers) = 1
    /\ nextJob >= 5 /\ _cycle_job \in timers

(***************************************************************************)
(* SpecRipple: one RippleButton under <Button-1> events and the step       *)
(* callbacks of its pulses.  Every step is scheduled with after(12, ...),  *)
(* and Tk runs timer callbacks in the order they fall due, so the pending  *)
(* callbacks form a queue: pulses, each entry the argument i of step.      *)
(***************************************************************************)
\* The literal 0.03 = 8646911284551352 * 2^-58
Double003 == [m |-> <<7864, 335544, 335544>>, s |-> 58]

\* p - q for p >= q, borrows propagated.
Minus(p, q) ==
    LET b3 == IF p[3] < q[3] THEN 1 ELSE 0
        b2 == IF p[2] - b3 < q[2] THEN 1 ELSE 0
    IN  <<p[1] - b2 - q[1],
          p[2] - b3 + b2 * Limb - q[2],
          p[3] + b3 * Limb - q[3]>>

\* The double j * 0.03
TimesDouble(j, f) == [m |-> RoundToDouble(Times(j, f.m)), s |-> f.s]

\* The double 1 - x, for a double 0 <= x <= 1
OneMinus(x) ==
    [m |-> RoundToDouble(Minus(<<2 ^ (x.s - 2 * 20), 0, 0>>, x.m)), s |-> x.s]

\* Mutant of Shrink: the second half of the pulse keeps shrinking.
Shrink_on(i) == i

\* How many steps of 0.03 step(i) takes off: i on the way in, 8 - i on the
\* way out.
Shrink(i) == IF i <= 4 THEN i ELSE 8 - i

\* step(i): the size it configures.
StepSize(b, i) ==
    IF i <= 8
    THEN LET k == OneMinus(TimesDouble(Shrink(i), Double003))
         IN  <<MulTrunc(b[1], k), MulTrunc(b[2], k)>>
    ELSE b

MaxClicks == 3

\* (width, height) a RippleButton is made with; the header buttons are
\* 44 x 36, the side navigation buttons 140 x 40.
BaseSizes == {<<44, 36>>, <<140, 40>>, <<25, 100>>, <<1, 7>>, <<0, 36>>, <<44, 0>>}

InitRipple ==
    /\ module = "better_gui_concept"
    /\ WrapIdle /\ FmtIdle /\ ThumbIdle /\ ThreadsIdle /\ BuildIdle /\ GuiIdle
    /\ ColorIdle /\ ErrIdle /\ SidebarIdle /\ HoverIdle
    /\ base \in BaseSizes
    /\ configured = base
    /\ pulses = <<>>
    /\ clicks = 0

\* RippleButton._pulse: returns at once for a zero base, else runs step(0).
Pulse ==
    /\ clicks < MaxClicks
    /\ clicks' = clicks + 1
    /\ IF base[1] = 0 \/ base[2] = 0
       THEN UNCHANGED <<configured, pulses>>
       ELSE /\ configured' = StepSize(base, 0)
            /\ pulses' = Append(pulses, 1)
    /\ UNCHANGED <<module, wrapVars, fmtVars, thumbVars, threadVars, buildVars,
                   guiVars, colorVars, raised, sidebarVars, hoverVars, base>>

\* The callback at the head of the queue runs: step(i).
Step ==
    /\ pulses # <<>>
    /\ LET i == Head(pulses)
       IN  /\ configured' = StepSize(base, i)
           /\ pulses' = IF i <= 8 THEN Append(Tail(pulses), i + 1) ELSE Tail(pulses)
    /\ UNCHANGED <<module, wrapVars, fmtVars, thumbVars, threadVars, buildVars,
                   guiVars, colorVars, raised, sidebarVars, hoverVars, base, clicks>>

NextRipple == Pulse \/ Step

SpecRipple == InitRipple /\ [][NextRipple]_vars

\* The step callbacks still to run: step(i) is followed by step(i + 1)
\* up to step(9).
RECURSIVE Remaining(_)
Remaining(q) == IF q = <<>> THEN 0 ELSE (10 - Head(q)) + Remaining(Tail(q))

\* Every pulse is finite: a click adds at most nine callbacks, and every
\* other step runs one of them.
PulsesFinite ==
    [][\/ clicks' = clicks + 1 /\ Remaining(pulses') <= Remaining(pulses) + 9
       \/ Remaining(pulses') = Remaining(pulses) - 1]_vars

\* With no step pending the button has its base size.
PulsesRestore == pulses = <<>> => configured = base

\* C18 as claimed: pulses are finite, the configured width and height are
\* never below 88% of the base nor above the base, and with no step
\* pending they equal the base.
C18_PulseRestores ==
    /\ PulsesFinite
    /\ [](\A k \in 1..2 : /\ 100 * configured[k] >= 88 * base[k]
                         /\ configured[k] <= base[k])
    /\ []PulsesRestore

\* C18 amended: pulses are finite, the configured width and height are
\* never below 88% of the base rounded down to a whole pixel nor above
\* the base, and with no step pending they equal the base.
C18_PulseRestoresFloor ==
    /\ PulsesFinite
    /\ [](\A k \in 1..2 : /\ configured[k] >= (88 * base[k]) \div 100
                         /\ configured[k] <= base[k])
    /\ []PulsesRestore

\* Two pulses overlap on a 44 x 36 button and a step has just configured
\* the smallest size, 38 x 31, under 88% of the base.
C18_Witness ==
    /\ base = <<44, 36>> /\ Len(pulses) >= 2
    /\ configured = <<38, 31>>

=============================================================================
